---- MODULE Spec2Model ----
(***************************************************************************)
(* A model of the ClauseMatrix legal analyzer scripts:                     *)
(*   app.py                  - single / comparison analysis, section       *)
(*                             parser, comparison matrix and its fallback  *)
(*   app_fully_customized.py - summarize_clause with its fallback model,   *)
(*                             fixed-size chunking, DOCX / XLSX export     *)
(* Texts are sequences of one-character strings, so that the regular       *)
(* expression of extract_section, str.strip and slicing are computed       *)
(* character by character.                                                 *)
(***************************************************************************)
EXTENDS Integers, Sequences, FiniteSets, TLC

VARIABLES
    \* the section parser on its own
    analysis_text,   \* extract_section: the text handed to the parser
    section_name,    \* extract_section: the label handed to the parser
    extracted,       \* extract_section(analysis_text, section_name)
    reextracted,     \* extract_section(extracted, section_name)
    parse_pc,        \* "idle" | "parsed" | "reparsed"
    \* one run of a script
    uploaded_files,  \* st.file_uploader: sequence of [name, pages]
    mode,            \* app.py: st.radio: "single" | "compare"
    pc,              \* position of the script run
    i,               \* index of the file the loop is at
    text,            \* extracted text of the current file
    results,         \* the results dict being filled, in insertion order
    analysis_results,\* app.py run_app: what process_multiple_documents returned
    requests,        \* every request sent to chat.completions.create, in order
    matrix,          \* app.py run_app: matrix[section][fname]
    shown,           \* what the page displays at the end of the run
    trace,           \* history of the steps of the run, in order
    chunks,          \* app_fully_customized.py: the windows of the current text
    chunk_summaries, \* app_fully_customized.py: summarize_clause's results so far
    calls,           \* history of the calls of summarize_clause in a run
    docx,            \* app_fully_customized.py: blocks of Clause_Summary.docx
    sheet,           \* app_fully_customized.py: rows of Clause_Summary.xlsx
    \* one call of summarize_clause
    sum_text,        \* summarize_clause: its text argument
    primary,         \* what the request to gpt-4o does
    fallback,        \* what the request to gpt-3.5-turbo does
    call,            \* what the call did: requests, raised, value
    sum_pc           \* "ready" | "returned"

parse_vars == <<analysis_text, section_name, extracted, reextracted, parse_pc>>
run_vars == <<uploaded_files, mode, pc, i, text, results, analysis_results,
              requests, matrix, shown, trace>>
fc_vars == <<chunks, chunk_summaries, calls, docx, sheet>>
sum_vars == <<sum_text, primary, fallback, call, sum_pc>>
vars == <<parse_vars, run_vars, fc_vars, sum_vars>>

\* ---------------------------------------------------------------- bounds

\* Most building blocks (Pieces) in a generated analysis text.
MaxPieces == 4
\* Most files in one upload.
MaxFiles == 2
\* The window size of the chunked analysis, in characters: 16000 in
\* app_fully_customized.py, scaled down here.
ChunkSize == 3

\* ------------------------------------------------------------ characters

UpperCase == <<"A","B","C","D","E","F","G","H","I","J","K","L","M",
               "N","O","P","Q","R","S","T","U","V","W","X","Y","Z">>
LowerCase == <<"a","b","c","d","e","f","g","h","i","j","k","l","m",
               "n","o","p","q","r","s","t","u","v","w","x","y","z">>

UpperSet == {UpperCase[k] : k \in 1..26}
LowerSet == {LowerCase[k] : k \in 1..26}
\* str.lower() on the upper-case letters
ToLower == [c \in UpperSet |-> LowerCase[CHOOSE k \in 1..26 : UpperCase[k] = c]]

IsUpper(c) == c \in UpperSet
IsLower(c) == c \in LowerSet
\* [A-Za-z]
IsAlpha(c) == IsUpper(c) \/ IsLower(c)
\* \s of the re module and the characters str.strip() removes
IsSpace(c) == c \in {" ", "\n", "\t", "\r"}
\* str.lower() of one character: how re.IGNORECASE compares two characters
Lower(c) == IF IsUpper(c) THEN ToLower[c] ELSE c

\* str.strip(): the text without its leading and trailing whitespace
strip(s) ==
    LET keep == {k \in 1..Len(s) : ~IsSpace(s[k])}
    IN  IF keep = {} THEN <<>>
        ELSE SubSeq(s, CHOOSE k \in keep : \A j \in keep : k <= j,
                       CHOOSE k \in keep : \A j \in keep : j <= k)

\* ------------------------------------------------------- section labels

Parties == <<"P","a","r","t","i","e","s">>
EffectiveDate == <<"E","f","f","e","c","t","i","v","e"," ","D","a","t","e">>
Term == <<"T","e","r","m">>
ConfidentialInformation ==
    <<"C","o","n","f","i","d","e","n","t","i","a","l"," ",
      "I","n","f","o","r","m","a","t","i","o","n">>
Obligations == <<"O","b","l","i","g","a","t","i","o","n","s">>
Jurisdiction == <<"J","u","r","i","s","d","i","c","t","i","o","n">>
RiskFlags == <<"R","i","s","k"," ","F","l","a","g","s">>

\* app.py: sections, in row order
sections == <<Parties, EffectiveDate, Term, ConfidentialInformation,
              Obligations, Jurisdiction, RiskFlags>>

\* the sentinel "Not specified"
NotSpecified == <<"N","o","t"," ","s","p","e","c","i","f","i","e","d">>

\* -------------------------------------------------------- extract_section
\* pattern = rf"{section_name}\s*:([\s\S]*?)(?=\n[A-Z][A-Za-z ]+:\s*|$)"
\* m = re.search(pattern, analysis_text, flags=re.IGNORECASE)

\* The literal section_name matches at position p, ignoring case.
LabelAt(s, p, name) ==
    /\ p + Len(name) - 1 <= Len(s)
    /\ \A k \in 1..Len(name) : Lower(s[p + k - 1]) = Lower(name[k])

\* \s*: the first position at or after p that holds no whitespace (Len(s)+1 if none).
SkipSpace(s, p) ==
    LET stop == {k \in p..Len(s) : ~IsSpace(s[k])}
    IN  IF stop = {} THEN Len(s) + 1 ELSE CHOOSE k \in stop : \A j \in stop : k <= j

\* {section_name}\s*: at p: the position of its colon, 0 when it does not match.
HeadingColon(s, p, name) ==
    IF ~LabelAt(s, p, name) THEN 0
    ELSE LET c == SkipSpace(s, p + Len(name))
         IN  IF c <= Len(s) /\ s[c] = ":" THEN c ELSE 0

\* [A-Z] under re.IGNORECASE: the flag applies to the whole pattern, so the class
\* matches a letter of either case.
HeadingStart(c) == IsAlpha(c)

\* [A-Za-z ]
HeadingChar(c) == IsAlpha(c) \/ c = " "

\* The lookahead \n[A-Z][A-Za-z ]+:\s* at position q (its \s* matches anything).
HeadingAt(s, q) ==
    /\ q + 3 <= Len(s)
    /\ s[q] = "\n"
    /\ HeadingStart(s[q + 1])
    /\ \E c \in (q + 3)..Len(s) :
          /\ s[c] = ":"
          /\ \A k \in (q + 2)..(c - 1) : HeadingChar(s[k])

\* $ without re.MULTILINE: the end of the text, or just before its final newline.
EndAt(s, q) == q = Len(s) + 1 \/ (q = Len(s) /\ s[q] = "\n")

\* The match object of re.search: its leftmost start and the span of group 1
\* (lazy: it ends at the first position where the lookahead succeeds).
search(s, name) ==
    LET starts == {p \in 1..Len(s) : HeadingColon(s, p, name) # 0}
    IN  IF starts = {} THEN [found |-> FALSE, from |-> 0, to |-> 0]
        ELSE LET p == CHOOSE k \in starts : \A j \in starts : k <= j
                 c == HeadingColon(s, p, name)
                 ends == {q \in (c + 1)..(Len(s) + 1) : HeadingAt(s, q) \/ EndAt(s, q)}
                 q == CHOOSE k \in ends : \A j \in ends : k <= j
             IN  [found |-> TRUE, from |-> c + 1, to |-> q - 1]

\* return m.group(1).strip() if m else "Not specified"
extract_section_keep(s, name) ==
    LET m == search(s, name)
    IN  IF m.found THEN strip(SubSeq(s, m.from, m.to)) ELSE strip(s)

extract_section(s, name) ==
    LET m == search(s, name)
    IN  IF m.found THEN strip(SubSeq(s, m.from, m.to)) ELSE NotSpecified

\* ------------------------------------------------- parser inputs (bounded)

\* Building blocks of generated analysis texts: the label with and without its
\* colon, the label in lower case with a space before the colon, a value with
\* leading whitespace, a newline, a capitalised / lower-case / one-letter
\* heading line, and the text of the sentinel.
Pieces == { Term \o <<":">>, Term, <<"t","e","r","m"," ",":">>, <<" ","v">>, <<"\n">>,
            <<"\n","A","b",":">>, <<"\n","n","o",":">>, <<"\n","X",":">>,
            NotSpecified }

RECURSIVE TextsOf(_)
TextsOf(n) ==
    IF n = 0 THEN {<<>>}
    ELSE LET shorter == TextsOf(n - 1)
         IN  shorter \cup {t \o p : t \in shorter, p \in Pieces}

ParseTexts == TextsOf(MaxPieces)
ParseLabels == {Term, Parties}

\* ---------------------------------------------------------------- parser

\* The parser's variables while a script runs, and a script's while the parser is checked.
ParseIdle ==
    /\ analysis_text = <<>>
    /\ section_name = <<>>
    /\ extracted = <<>>
    /\ reextracted = <<>>
    /\ parse_pc = "off"

RunIdle ==
    /\ uploaded_files = <<>>
    /\ mode = "none"
    /\ pc = "off"
    /\ i = 0
    /\ text = <<>>
    /\ results = <<>>
    /\ analysis_results = <<>>
    /\ requests = <<>>
    /\ matrix = <<>>
    /\ shown = [kind |-> "nothing"]
    /\ trace = <<>>

FCIdle ==
    /\ chunks = <<>>
    /\ chunk_summaries = <<>>
    /\ calls = <<>>
    /\ docx = <<>>
    /\ sheet = <<>>

NoOutcome == [kind |-> "none", raw |-> <<>>]
NoCall == [requests |-> <<>>, raised |-> "none", value |-> <<>>]

SumIdle ==
    /\ sum_text = <<>>
    /\ primary = NoOutcome
    /\ fallback = NoOutcome
    /\ call = NoCall
    /\ sum_pc = "off"

InitParse ==
    /\ analysis_text \in ParseTexts
    /\ section_name \in ParseLabels
    /\ extracted = <<>>
    /\ reextracted = <<>>
    /\ parse_pc = "idle"
    /\ RunIdle
    /\ FCIdle
    /\ SumIdle

\* one call of extract_section
Parse ==
    /\ parse_pc = "idle"
    /\ extracted' = extract_section(analysis_text, section_name)
    /\ parse_pc' = "parsed"
    /\ UNCHANGED <<analysis_text, section_name, reextracted, run_vars, fc_vars, sum_vars>>

\* the parser applied to its own output, for the same label
Reparse ==
    /\ parse_pc = "parsed"
    /\ reextracted' = extract_section(extracted, section_name)
    /\ parse_pc' = "reparsed"
    /\ UNCHANGED <<analysis_text, section_name, extracted, run_vars, fc_vars, sum_vars>>

NextParse == Parse \/ Reparse

SpecParse == InitParse /\ [][NextParse]_vars

\* ------------------------------------------------------------- helpers

\* "".join(parts)
RECURSIVE Concat(_)
Concat(parts) == IF parts = <<>> THEN <<>> ELSE Head(parts) \o Concat(Tail(parts))

\* sep.join(parts)
RECURSIVE join(_, _)
join(sep, parts) ==
    IF parts = <<>> THEN <<>>
    ELSE IF Len(parts) = 1 THEN parts[1]
    ELSE parts[1] \o sep \o join(sep, Tail(parts))

\* A dict, kept in insertion order as a sequence of [key, value].
HasKey(d, k) == \E n \in 1..Len(d) : d[n].key = k
Get(d, k) == d[CHOOSE n \in 1..Len(d) : d[n].key = k].value
\* d[k] = v: a present key keeps its place
Put(d, k, v) ==
    IF HasKey(d, k)
    THEN [n \in 1..Len(d) |-> IF d[n].key = k THEN [key |-> k, value |-> v] ELSE d[n]]
    ELSE Append(d, [key |-> k, value |-> v])

\* ------------------------------------------------------------ the upload

FileNames == <<"a.pdf", "b.pdf", "c.pdf", "d.pdf">>

\* The batches of n files whose pages are drawn from pageSets. A page is the text
\* page.extract_text() gives; <<>> stands for both None and "".
Batches(n, pageSets) ==
    {[k \in 1..n |-> [name |-> FileNames[k], pages |-> ps[k]]] : ps \in [1..n -> pageSets]}

Uploads(pageSets) == UNION {Batches(n, pageSets) : n \in 0..MaxFiles}

\* ------------------------------------------------------------------ app.py

\* app.py: a blank PDF, one whose pages hold only whitespace, one with text.
AppPages == { << <<>> >>,
              << <<" ">>, <<"\n">> >>,
              << <<"a">>, <<>>, <<"b"," ">> >> }

\* The warning sign of the two messages is written as the one character "!".
EmptySingle == <<"!"," ","T","h","e"," ","u","p","l","o","a","d","e","d"," ","P","D","F"," ",
                 "a","p","p","e","a","r","s"," ","t","o"," ","b","e"," ","e","m","p","t","y"," ",
                 "o","r"," ","u","n","r","e","a","d","a","b","l","e",".">>
EmptyBatch == <<"!"," ","E","m","p","t","y"," ","o","r"," ","u","n","r","e","a","d","a","b","l","e",
                " ","P","D","F",".">>

\* Texts the endpoint may answer with: two labelled sections, a label whose
\* section is empty, and a text without any heading.
Completions ==
    { Parties \o <<":"," ","A","\n">> \o Term \o <<":"," ","B","\n">>,
      Parties \o <<":","\n">> \o Term \o <<":"," ","B">>,
      <<" ","n","o","n","e">> }

\* What client.chat.completions.create does: it answers with one of raws, or it
\* raises openai.RateLimitError or another error.
Outcomes(raws) ==
    [kind : {"ok"}, raw : raws] \cup [kind : {"RateLimitError", "APIError"}, raw : {<<>>}]

AppOutcomes == Outcomes(Completions)

\* extract_text_from_pdf: text += page.extract_text() or ""; return text.strip()
extract_text_from_pdf(pages) == strip(Concat(pages))

\* analyze_text_full: return resp.choices[0].message.content.strip()
analyze_text_full(raw) == strip(raw)

\* for f in files: whether the loop has a file at index k
more_files_skip(files, k) == k < Len(files)
more_files(files, k) == k <= Len(files)

\* matrix = {section: {} for section in sections}, then
\* matrix[section][fname] = extract_section(analysis_text, section) for every pair
build_matrix(res) ==
    [s \in 1..Len(sections) |->
        [n \in 1..Len(res) |->
            [key |-> res[n].key, value |-> extract_section(res[n].value, sections[s])]]]

\* A value pandas counts as missing. Every cell of the matrix is a str.
NaN == <<"NaN">>
isna(v) == v = NaN

\* df_matrix.empty: pd.DataFrame(matrix).T has no row or no column
df_empty(m) == Len(m) = 0 \/ \A s \in 1..Len(m) : Len(m[s]) = 0

\* df_matrix.isna().all(axis=None)
all_na(m) == \A s \in 1..Len(m) : \A n \in 1..Len(m[s]) : isna(m[s][n].value)

\* if df_matrix.empty or df_matrix.isna().all(axis=None): the two-column table
use_fallback(m) == df_empty(m) \/ all_na(m)

InitApp ==
    /\ ParseIdle
    /\ FCIdle
    /\ SumIdle
    /\ uploaded_files \in Uploads(AppPages)
    /\ mode \in {"single", "compare"}
    /\ pc = "start"
    /\ i = 0
    /\ text = <<>>
    /\ results = <<>>
    /\ analysis_results = <<>>
    /\ requests = <<>>
    /\ matrix = <<>>
    /\ shown = [kind |-> "nothing"]
    /\ trace = <<>>

\* run_app: nothing uploaded, or a number of files the mode does not take
Refuse ==
    /\ pc = "start"
    /\ \/ uploaded_files = <<>>
       \/ mode = "single" /\ Len(uploaded_files) # 1
       \/ mode = "compare" /\ Len(uploaded_files) < 2
    /\ shown' = [kind |-> IF uploaded_files = <<>> THEN "info" ELSE "warning"]
    /\ pc' = "done"
    /\ UNCHANGED <<parse_vars, fc_vars, sum_vars, uploaded_files, mode, i, text, results, analysis_results,
                   requests, matrix, trace>>

\* run_app: process_single_document / process_multiple_documents is entered
Begin ==
    /\ pc = "start"
    /\ uploaded_files # <<>>
    /\ \/ mode = "single" /\ Len(uploaded_files) = 1
       \/ mode = "compare" /\ Len(uploaded_files) >= 2
    /\ i' = 1
    /\ results' = <<>>
    /\ pc' = "extract"
    /\ UNCHANGED <<parse_vars, fc_vars, sum_vars, uploaded_files, mode, text, analysis_results,
                   requests, matrix, shown, trace>>

\* The loop moves to the file after i, or leaves when there is none.
Advance(k) == IF more_files(uploaded_files, k + 1) THEN "extract" ELSE "compare"

\* text = extract_text_from_pdf(f); if not text: the fixed message, no request
Extract ==
    /\ pc = "extract"
    /\ LET t == extract_text_from_pdf(uploaded_files[i].pages)
       IN  /\ text' = t
           /\ IF t # <<>>
              THEN /\ pc' = "analyze"
                   /\ trace' = Append(trace, [ev |-> "extract", doc |-> i])
                   /\ UNCHANGED <<i, results, shown>>
              ELSE IF mode = "single"
              THEN /\ shown' = [kind |-> "text", body |-> EmptySingle]
                   /\ pc' = "done"
                   /\ trace' = trace \o <<[ev |-> "extract", doc |-> i],
                                          [ev |-> "stored", doc |-> i]>>
                   /\ UNCHANGED <<i, results>>
              ELSE /\ results' = Put(results, uploaded_files[i].name, EmptyBatch)
                   /\ i' = i + 1
                   /\ pc' = Advance(i)
                   /\ trace' = trace \o <<[ev |-> "extract", doc |-> i],
                                          [ev |-> "stored", doc |-> i]>>
                   /\ UNCHANGED shown
    /\ UNCHANGED <<parse_vars, fc_vars, sum_vars, uploaded_files, mode, analysis_results, requests, matrix>>

\* analyze_text_full returns: the result is written (single) or stored (batch)
AnalyzeOk ==
    /\ pc = "analyze"
    /\ \E o \in AppOutcomes :
          /\ o.kind = "ok"
          /\ requests' = Append(requests, [doc |-> i, model |-> "gpt-4o-mini", text |-> text])
          /\ trace' = trace \o <<[ev |-> "request", doc |-> i], [ev |-> "stored", doc |-> i]>>
          /\ IF mode = "single"
             THEN /\ shown' = [kind |-> "text", body |-> analyze_text_full(o.raw)]
                  /\ pc' = "done"
                  /\ UNCHANGED <<i, results>>
             ELSE /\ results' = Put(results, uploaded_files[i].name, analyze_text_full(o.raw))
                  /\ i' = i + 1
                  /\ pc' = Advance(i)
                  /\ UNCHANGED shown
    /\ UNCHANGED <<parse_vars, fc_vars, sum_vars, uploaded_files, mode, text, analysis_results, matrix>>

\* analyze_text_full raises: the exception leaves process_*_document(s), whose
\* local results are lost, and reaches the except clause of run_app
AnalyzeRaise ==
    /\ pc = "analyze"
    /\ \E o \in AppOutcomes :
          /\ o.kind # "ok"
          /\ requests' = Append(requests, [doc |-> i, model |-> "gpt-4o-mini", text |-> text])
    /\ trace' = trace \o <<[ev |-> "request", doc |-> i], [ev |-> "raised", doc |-> i]>>
    /\ results' = <<>>
    /\ shown' = [kind |-> "error"]
    /\ pc' = "done"
    /\ UNCHANGED <<parse_vars, fc_vars, sum_vars, uploaded_files, mode, i, text, analysis_results, matrix>>

\* process_multiple_documents returns; run_app builds the matrix and shows a table
Compare ==
    /\ pc = "compare"
    /\ analysis_results' = results
    /\ matrix' = build_matrix(results)
    /\ shown' = [kind |-> IF use_fallback(build_matrix(results)) THEN "simple" ELSE "matrix"]
    /\ trace' = Append(trace, [ev |-> "matrix", doc |-> 0])
    /\ pc' = "done"
    /\ UNCHANGED <<parse_vars, fc_vars, sum_vars, uploaded_files, mode, i, text, results, requests>>

NextApp == Refuse \/ Begin \/ Extract \/ AnalyzeOk \/ AnalyzeRaise \/ Compare

SpecApp == InitApp /\ [][NextApp]_vars

\* ------------------------------------------------ app_fully_customized.py

\* "(Fallback to GPT-3.5)\n"
Marker == <<"(","F","a","l","l","b","a","c","k"," ","t","o"," ","G","P","T","-","3",".","5",")","\n">>

\* summarize_clause(text, role), given what the two requests do. The role only
\* changes the wording of the system prompt. Returns the requests issued, in
\* order, the error that left the function ("none" if it returned) and the value.
summarize_clause_any(t, p, f) ==
    LET first == [model |-> "gpt-4o", text |-> t, temperature |-> "0.2"]
        second == [model |-> "gpt-3.5-turbo", text |-> t, temperature |-> "0.3"]
    IN  IF p.kind = "ok"
        THEN [requests |-> <<first>>, raised |-> "none", value |-> strip(p.raw)]
        ELSE IF f.kind = "ok"
        THEN [requests |-> <<first, second>>, raised |-> "none",
              value |-> Marker \o strip(f.raw)]
        ELSE [requests |-> <<first, second>>, raised |-> f.kind, value |-> <<>>]

summarize_clause(t, p, f) ==
    LET first == [model |-> "gpt-4o", text |-> t, temperature |-> "0.2"]
        second == [model |-> "gpt-3.5-turbo", text |-> t, temperature |-> "0.3"]
    IN  IF p.kind = "ok"
        THEN [requests |-> <<first>>, raised |-> "none", value |-> strip(p.raw)]
        ELSE IF p.kind = "RateLimitError"
        THEN \* except RateLimitError: the second request is outside any try
             IF f.kind = "ok"
             THEN [requests |-> <<first, second>>, raised |-> "none",
                   value |-> Marker \o strip(f.raw)]
             ELSE [requests |-> <<first, second>>, raised |-> f.kind, value |-> <<>>]
        ELSE [requests |-> <<first>>, raised |-> p.kind, value |-> <<>>]

\* extract_text_from_pdf of app_fully_customized.py:
\* "\n".join(page.extract_text() for page in reader.pages if page.extract_text())
RECURSIVE NonEmpty(_)
NonEmpty(pages) ==
    IF pages = <<>> THEN <<>>
    ELSE IF Head(pages) = <<>> THEN NonEmpty(Tail(pages))
    ELSE <<Head(pages)>> \o NonEmpty(Tail(pages))

extract_text_joined(pages) == join(<<"\n">>, NonEmpty(pages))

Min(a, b) == IF a <= b THEN a ELSE b

\* chunks = [text[i:i+16000] for i in range(0, len(text), 16000)]
windows_overlap(t) ==
    [k \in 1..((Len(t) + ChunkSize - 1) \div ChunkSize) |->
        SubSeq(t, (k - 1) * ChunkSize + 1, Min(k * ChunkSize + 1, Len(t)))]

windows(t) ==
    [k \in 1..((Len(t) + ChunkSize - 1) \div ChunkSize) |->
        SubSeq(t, (k - 1) * ChunkSize + 1, Min(k * ChunkSize, Len(t)))]

\* if len(text) > 16000: the windows; else: the text as it is
pieces_of(t) == IF Len(t) > ChunkSize THEN windows(t) ELSE <<t>>

\* docx.add_heading(filename, level=2); docx.add_paragraph(summary), per result
document(res) ==
    Concat([n \in 1..Len(res) |->
               <<[block |-> "heading", body |-> res[n].key],
                 [block |-> "paragraph", body |-> res[n].value]>>])

\* ws.append(["Filename", "Clause Analysis"]); ws.append([filename, summary]) per result
workbook_skip(res) ==
    <<<<"Filename", "Clause Analysis">>>>
        \o [n \in 1..(Len(res) - 1) |-> <<res[n + 1].key, res[n + 1].value>>]

workbook(res) ==
    <<<<"Filename", "Clause Analysis">>>>
        \o [n \in 1..Len(res) |-> <<res[n].key, res[n].value>>]

\* Page texts with distinct characters, from the a-th to the b-th letter.
Doc(a, b) == SubSeq(LowerCase, a, b)

\* PDFs without pages, with a blank page, and with texts of 1, ChunkSize,
\* ChunkSize + 1 and (two pages) 2 * ChunkSize + 1 characters.
FCPages == { <<>>,
             << <<>> >>,
             << Doc(1, 1) >>,
             << Doc(1, ChunkSize) >>,
             << Doc(1, ChunkSize + 1) >>,
             << Doc(1, ChunkSize), <<>>, Doc(ChunkSize + 1, 2 * ChunkSize) >> }

FCPrimary == Outcomes({<<" ","p","\n">>})
FCFallback == Outcomes({<<"\n","f"," ">>})

InitFC ==
    /\ ParseIdle
    /\ SumIdle
    /\ uploaded_files \in Uploads(FCPages)
    /\ mode = "none"
    /\ pc = "fc_start"
    /\ i = 0
    /\ text = <<>>
    /\ results = <<>>
    /\ analysis_results = <<>>
    /\ requests = <<>>
    /\ matrix = <<>>
    /\ shown = [kind |-> "nothing"]
    /\ trace = <<>>
    /\ FCIdle

\* if uploaded_files: is false, nothing is analysed or exported
FCNoFiles ==
    /\ pc = "fc_start"
    /\ uploaded_files = <<>>
    /\ pc' = "done"
    /\ UNCHANGED <<parse_vars, sum_vars, fc_vars, uploaded_files, mode, i, text, results,
                   analysis_results, requests, matrix, shown, trace>>

\* text = extract_text_from_pdf(file), and the split into windows
FCExtract ==
    /\ \/ pc = "fc_start" /\ uploaded_files # <<>> /\ i' = 1
       \/ pc = "fc_extract" /\ i' = i
    /\ text' = extract_text_joined(uploaded_files[i'].pages)
    /\ chunks' = pieces_of(text')
    /\ chunk_summaries' = <<>>
    /\ pc' = "fc_summarize"
    /\ UNCHANGED <<parse_vars, sum_vars, uploaded_files, mode, results, analysis_results,
                   requests, matrix, shown, trace, calls, docx, sheet>>

\* The requests of one call, tagged with the file they were sent for.
Sent(r) == [n \in 1..Len(r.requests) |->
               [doc |-> i, model |-> r.requests[n].model, text |-> r.requests[n].text]]

\* One call of summarize_clause returns; after the last window the summary is
\* stored under the file's name and shown.
FCSummarizeOk ==
    /\ pc = "fc_summarize"
    /\ \E p \in FCPrimary, f \in FCFallback :
          LET chunk == chunks[Len(chunk_summaries) + 1]
              r == summarize_clause(chunk, p, f)
              got == Append(chunk_summaries, r.value)
              summary == IF Len(text) > ChunkSize THEN join(<<"\n">>, got) ELSE r.value
          IN  /\ r.raised = "none"
              /\ requests' = requests \o Sent(r)
              /\ calls' = Append(calls, [doc |-> i, text |-> chunk, value |-> r.value])
              /\ chunk_summaries' = got
              /\ IF Len(got) < Len(chunks)
                 THEN UNCHANGED <<pc, i, results>>
                 ELSE /\ results' = Put(results, uploaded_files[i].name, summary)
                      /\ i' = i + 1
                      /\ pc' = IF more_files(uploaded_files, i + 1)
                               THEN "fc_extract" ELSE "fc_export"
    /\ UNCHANGED <<parse_vars, sum_vars, uploaded_files, mode, text, analysis_results,
                   matrix, shown, trace, chunks, docx, sheet>>

\* One call of summarize_clause raises: nothing catches it, the script run ends.
FCSummarizeRaise ==
    /\ pc = "fc_summarize"
    /\ \E p \in FCPrimary, f \in FCFallback :
          LET r == summarize_clause(chunks[Len(chunk_summaries) + 1], p, f)
          IN  /\ r.raised # "none"
              /\ requests' = requests \o Sent(r)
    /\ pc' = "crashed"
    /\ UNCHANGED <<parse_vars, sum_vars, fc_vars, uploaded_files, mode, i, text, results,
                   analysis_results, matrix, shown, trace>>

\* Export to DOCX and XLSX
FCExport ==
    /\ pc = "fc_export"
    /\ docx' = document(results)
    /\ sheet' = workbook(results)
    /\ pc' = "done"
    /\ UNCHANGED <<parse_vars, sum_vars, uploaded_files, mode, i, text, results,
                   analysis_results, requests, matrix, shown, trace, chunks,
                   chunk_summaries, calls>>

NextFC == FCNoFiles \/ FCExtract \/ FCSummarizeOk \/ FCSummarizeRaise \/ FCExport

SpecFC == InitFC /\ [][NextFC]_vars

\* ------------------------------------------------ summarize_clause alone

SumRaws == { <<"r">>, <<" ","r","\n">>, <<"\n","(","x",")"," ">> }
SumTexts == { <<>>, Doc(1, 2), <<" ","z">> }

InitSummarize ==
    /\ ParseIdle
    /\ RunIdle
    /\ FCIdle
    /\ sum_text \in SumTexts
    /\ primary \in Outcomes(SumRaws)
    /\ fallback \in Outcomes(SumRaws)
    /\ call = NoCall
    /\ sum_pc = "ready"

\* one call of summarize_clause
Summarize ==
    /\ sum_pc = "ready"
    /\ call' = summarize_clause(sum_text, primary, fallback)
    /\ sum_pc' = "returned"
    /\ UNCHANGED <<parse_vars, run_vars, fc_vars, sum_text, primary, fallback>>

NextSummarize == Summarize

SpecSummarize == InitSummarize /\ [][NextSummarize]_vars

\* ================================================================ claims

Name(k) == uploaded_files[k].name
Files == 1..Len(uploaded_files)

\* The comparison page of app.py has shown one of its two tables.
TableShown == pc = "done" /\ shown.kind \in {"matrix", "simple"}

\* Every cell the section parser produces for the batch is the sentinel.
AllSentinel ==
    \A s \in 1..Len(sections) : \A n \in 1..Len(analysis_results) :
        extract_section(analysis_results[n].value, sections[s]) = NotSpecified

\* C1 (as claimed): in comparison mode the two-column filename -> raw text table
\* is shown exactly when every cell of the matrix is "Not specified".
C1_FallbackIffAllSentinel ==
    TableShown => (shown.kind = "simple" <=> AllSentinel)

\* C2 (as claimed): once the matrix is built, every (label, filename) pair of the
\* batch has a cell, and the cell is never empty.
C2_EveryCellPopulated ==
    TableShown =>
        \A s \in 1..Len(sections) : \A k \in Files :
            /\ HasKey(matrix[s], Name(k))
            /\ Get(matrix[s], Name(k)) # <<>>

Raised(k) == \E n \in 1..Len(trace) : trace[n] = [ev |-> "raised", doc |-> k]

\* C3 (as claimed): when the request of one document raises, the batch is not
\* aborted: at the end of the run every other document has been processed and
\* its result is available to the caller.
C3_FailureDoesNotAbortBatch ==
    (pc = "done" /\ mode = "compare" /\ Len(uploaded_files) >= 2) =>
        \A k \in Files :
            Raised(k) \/ HasKey(results, Name(k)) \/ HasKey(analysis_results, Name(k))

Models(c) == [n \in 1..Len(c.requests) |-> c.requests[n].model]

\* C4: one call of summarize_clause issues one request to gpt-4o and returns its
\* trimmed answer; on a rate-limit error it issues exactly one more request, to
\* gpt-3.5-turbo, and returns the marker followed by the trimmed answer; an error
\* of the fallback request, or any other error of the primary request, leaves
\* the function with no further request.
C4_SummarizeClause ==
    sum_pc = "returned" =>
        /\ \A n \in 1..Len(call.requests) : call.requests[n].text = sum_text
        /\ primary.kind = "ok" =>
              /\ Models(call) = <<"gpt-4o">>
              /\ call.raised = "none"
              /\ call.value = strip(primary.raw)
        /\ primary.kind = "RateLimitError" =>
              /\ Models(call) = <<"gpt-4o", "gpt-3.5-turbo">>
              /\ fallback.kind = "ok" =>
                    /\ call.raised = "none"
                    /\ call.value = Marker \o strip(fallback.raw)
              /\ fallback.kind # "ok" => call.raised = fallback.kind
        /\ primary.kind \notin {"ok", "RateLimitError"} =>
              /\ Models(call) = <<"gpt-4o">>
              /\ call.raised = primary.kind

\* C4 witness: a call that fell back to gpt-3.5-turbo and returned its answer
\* behind the marker.
C4_Witness ==
    /\ sum_pc = "returned"
    /\ primary.kind = "RateLimitError"
    /\ fallback.kind = "ok"
    /\ Len(call.requests) = 2
    /\ call.value = Marker \o <<"(","x",")">>

RequestsFor(k) == {n \in 1..Len(requests) : requests[n].doc = k}

\* C5 (as claimed): a document whose extracted text is empty gets the fixed
\* "empty or unreadable" message as its result, and no request is sent for it.
C5_EmptyTextNoRequest ==
    \A k \in Files :
        extract_text_joined(uploaded_files[k].pages) = <<>> =>
            /\ RequestsFor(k) = {}
            /\ HasKey(results, Name(k)) => Get(results, Name(k)) \in {EmptyBatch, EmptySingle}

CallsOf(k) == SelectSeq(calls, LAMBDA c : c.doc = k)

\* C6: a stored document whose text is longer than the window size was analysed
\* in ceil(L / W) calls on contiguous windows of at most W characters that add up
\* to the text, and its result is the calls' values joined by newlines in window
\* order; a text of at most W characters was analysed by one call on the text.
C6_Chunking ==
    \A k \in Files :
        HasKey(results, Name(k)) =>
            LET t == extract_text_joined(uploaded_files[k].pages)
                cs == CallsOf(k)
                ts == [n \in 1..Len(cs) |-> cs[n].text]
                vs == [n \in 1..Len(cs) |-> cs[n].value]
            IN  IF Len(t) > ChunkSize
                THEN /\ (Len(cs) - 1) * ChunkSize < Len(t)
                     /\ Len(t) <= Len(cs) * ChunkSize
                     /\ \A n \in 1..Len(cs) : Len(ts[n]) >= 1 /\ Len(ts[n]) <= ChunkSize
                     /\ Concat(ts) = t
                     /\ Get(results, Name(k)) = join(<<"\n">>, vs)
                ELSE /\ Len(cs) = 1
                     /\ ts[1] = t
                     /\ Get(results, Name(k)) = vs[1]

\* C6 witness: a stored document that took three windows, the second answered
\* by the fallback model and the others by the primary one.
C6_Witness ==
    \E k \in Files :
        /\ HasKey(results, Name(k))
        /\ Len(CallsOf(k)) = 3
        /\ Len(extract_text_joined(uploaded_files[k].pages)) = 2 * ChunkSize + 1
        /\ Get(results, Name(k)) = <<"p","\n">> \o Marker \o <<"f","\n","p">>

\* The section parser as C7 describes it: a heading line is a line of
\* capitalised word(s) followed by a colon, so its first letter is upper case.
ClaimedHeadingAt(s, q) ==
    /\ q + 3 <= Len(s)
    /\ s[q] = "\n"
    /\ IsUpper(s[q + 1])
    /\ \E c \in (q + 3)..Len(s) :
          /\ s[c] = ":"
          /\ \A k \in (q + 2)..(c - 1) : HeadingChar(s[k])

ClaimedSection(s, name) ==
    LET starts == {p \in 1..Len(s) : HeadingColon(s, p, name) # 0}
    IN  IF starts = {} THEN NotSpecified
        ELSE LET p == CHOOSE k \in starts : \A j \in starts : k <= j
                 c == HeadingColon(s, p, name)
                 ends == {q \in (c + 1)..(Len(s) + 1) : ClaimedHeadingAt(s, q) \/ q = Len(s) + 1}
                 q == CHOOSE k \in ends : \A j \in ends : k <= j
             IN  strip(SubSeq(s, c + 1, q - 1))

\* C7 (as claimed): extract_section returns the trimmed text after the label's
\* colon up to the next line of capitalised word(s) followed by a colon, or to
\* the end of the text, and the sentinel when the label is absent; a line that
\* starts with a lower-case word and a colon does not end the section.
C7_SectionUpToCapitalisedHeading ==
    parse_pc \in {"parsed", "reparsed"} =>
        extracted = ClaimedSection(analysis_text, section_name)

\* The first call found the label: its result is an extracted substring.
Found == search(analysis_text, section_name).found

\* C8 (as claimed): re-parsing an extracted substring for the same label gives
\* the same substring.
C8_Idempotent ==
    (parse_pc = "reparsed" /\ Found) => reextracted = extracted

\* C8 (amended): re-parsing an extracted substring x gives the sentinel when x
\* holds no heading of the label and a strictly shorter text when it holds one;
\* it gives x again only when x is itself the text "Not specified".
C8_ReparseSentinelOrShorter ==
    (parse_pc = "reparsed" /\ Found) =>
        /\ ~search(extracted, section_name).found => reextracted = NotSpecified
        /\ search(extracted, section_name).found => Len(reextracted) < Len(extracted)
        /\ reextracted = extracted <=> extracted = NotSpecified

\* C8 witness: an extracted substring that itself holds a heading of the label,
\* re-parsed to something else.
C8_Witness ==
    /\ parse_pc = "reparsed"
    /\ Found
    /\ search(extracted, section_name).found
    /\ reextracted # extracted
    /\ reextracted # NotSpecified

\* The script of app_fully_customized.py has written its two files.
Exported == pc = "done" /\ uploaded_files # <<>>

RowsInUploadOrder == [k \in Files |-> <<Name(k), Get(results, Name(k))>>]

\* C9 (as claimed): the spreadsheet is the header row ["Filename", "Analysis"]
\* followed by one row [filename, result text] per file, in input order.
C9_SheetWithAnalysisHeader ==
    Exported => sheet = <<<<"Filename", "Analysis">>>> \o RowsInUploadOrder

\* C9 (amended): the spreadsheet is the header row ["Filename", "Clause Analysis"]
\* followed by exactly one row [filename, result text] per file, in input order.
C9_SheetWithClauseAnalysisHeader ==
    /\ Exported => sheet = <<<<"Filename", "Clause Analysis">>>> \o RowsInUploadOrder
    /\ ~Exported => sheet = <<>>

\* C9 witness: a spreadsheet exported for two or more files.
C9_Witness ==
    /\ Exported
    /\ Len(uploaded_files) >= 2
    /\ Len(sheet) = Len(uploaded_files) + 1
    /\ sheet[3][1] = "b.pdf"

Settled(k, before) ==
    \E j \in 1..(before - 1) : trace[j].doc = k /\ trace[j].ev \in {"stored", "raised"}

StoredBefore(k, before) ==
    \E j \in 1..(before - 1) : trace[j] = [ev |-> "stored", doc |-> k]

\* C10: documents are handled one at a time in upload order: when the extraction
\* of a document starts, every step so far belongs to an earlier document and
\* each earlier document has its result stored or its error raised; the matrix
\* is assembled last, after a result was stored for every document of the batch.
C10_OneAtATime ==
    \A n \in 1..Len(trace) :
        /\ trace[n].ev = "extract" =>
              /\ \A j \in 1..(n - 1) : trace[j].doc < trace[n].doc /\ trace[j].ev # "matrix"
              /\ \A k \in 1..(trace[n].doc - 1) : Settled(k, n)
        /\ trace[n].ev \in {"request", "stored", "raised"} =>
              /\ \A j \in 1..(n - 1) : trace[j].doc <= trace[n].doc /\ trace[j].ev # "matrix"
              /\ \E j \in 1..(n - 1) : trace[j] = [ev |-> "extract", doc |-> trace[n].doc]
        /\ trace[n].ev = "matrix" =>
              /\ n = Len(trace)
              /\ \A k \in Files : StoredBefore(k, n)

\* C10 witness: a batch whose documents were all analysed by a request, and whose
\* matrix was then assembled.
C10_Witness ==
    /\ pc = "done"
    /\ Len(trace) > 0
    /\ trace[Len(trace)].ev = "matrix"
    /\ Len(requests) = Len(uploaded_files)
    /\ Len(uploaded_files) >= 2

====
